---- MODULE Spec2Model ----
(***************************************************************************)
(* The Caribbean-affiliation scripts: doi_search.py, auto.py,             *)
(* title_search.py and url_search.py.  Each reads a table of rows, runs   *)
(* process_row on every row in a thread pool and collects the results.    *)
(*                                                                         *)
(* Python strings that the code trims, lower-cases, searches, sorts or    *)
(* joins are modelled as sequences of Unicode code points, so that these  *)
(* operations are computed and not assumed.  Verdicts and reason texts,   *)
(* which the code only compares for equality, are TLA+ strings.           *)
(***************************************************************************)
EXTENDS Integers, Sequences, FiniteSets, TLC

----------------------------------------------------------------------------
(* Python string operations                                                *)

Min(a, b) == IF a < b THEN a ELSE b

\* str.isspace() of one character, for the code points below 256.
IsSpace(c) == c \in {9, 10, 11, 12, 13, 28, 29, 30, 31, 32, 133, 160}

\* str.strip(): leading and trailing whitespace removed.
RECURSIVE LStrip(_)
LStrip(s) ==
  IF s # <<>> /\ IsSpace(Head(s)) THEN LStrip(Tail(s)) ELSE s

RECURSIVE RStrip(_)
RStrip(s) ==
  IF s # <<>> /\ IsSpace(s[Len(s)]) THEN RStrip(SubSeq(s, 1, Len(s) - 1)) ELSE s

Strip(s) == RStrip(LStrip(s))

\* str.rstrip(chars): trailing characters that are members of chars removed.
RECURSIVE RStripChars(_, _)
RStripChars(s, chars) ==
  IF s # <<>> /\ s[Len(s)] \in chars
    THEN RStripChars(SubSeq(s, 1, Len(s) - 1), chars)
    ELSE s

\* str.lower() of one character, for the code points below 256: A-Z and the
\* Latin-1 capitals (all of 192..222 but the multiplication sign 215).
LowerChar(c) ==
  IF c \in 65..90 \/ (c \in 192..222 /\ c # 215) THEN c + 32 ELSE c

Lower(s) == [i \in 1..Len(s) |-> LowerChar(s[i])]

\* needle in hay (substring test).
Contains(hay, needle) ==
  \E p \in 0..(Len(hay) - Len(needle)) :
    \A i \in 1..Len(needle) : hay[p + i] = needle[i]

\* a < b on Python strings: lexicographic by code point.
RECURSIVE StrLess(_, _)
StrLess(a, b) ==
  IF b = <<>> THEN FALSE
  ELSE IF a = <<>> THEN TRUE
  ELSE IF Head(a) # Head(b) THEN Head(a) < Head(b)
  ELSE StrLess(Tail(a), Tail(b))

\* The set of elements of a list: set(xs).
ToSet(xs) == {xs[i] : i \in 1..Len(xs)}

\* sorted(S) of a set of strings.
RECURSIVE Sorted(_)
Sorted(S) ==
  IF S = {} THEN <<>>
  ELSE LET m == CHOOSE x \in S : \A y \in S : y = x \/ StrLess(x, y)
       IN  <<m>> \o Sorted(S \ {m})

\* sep.join(xs)
RECURSIVE Join(_, _)
Join(sep, xs) ==
  IF xs = <<>> THEN <<>>
  ELSE IF Len(xs) = 1 THEN xs[1]
  ELSE xs[1] \o sep \o Join(sep, Tail(xs))

\* " | ".join(sorted(set(xs)))
PipeJoin(xs) == Join(<<32, 124, 32>>, Sorted(ToSet(xs)))

----------------------------------------------------------------------------
(* The allow-lists                                                         *)

\* CARIBBEAN_COUNTRIES of doi_search.py (title_search.py holds the same set).
CARIBBEAN_COUNTRIES ==
  \* "Jamaica"
  { <<74, 97, 109, 97, 105, 99, 97>>,
  \* "Trinidad and Tobago"
    <<84, 114, 105, 110, 105, 100, 97, 100, 32, 97, 110, 100, 32, 84, 111, 98, 97, 103, 111>>,
  \* "Barbados"
    <<66, 97, 114, 98, 97, 100, 111, 115>>,
  \* "Bahamas"
    <<66, 97, 104, 97, 109, 97, 115>>,
  \* "Antigua and Barbuda"
    <<65, 110, 116, 105, 103, 117, 97, 32, 97, 110, 100, 32, 66, 97, 114, 98, 117, 100, 97>>,
  \* "Saint Lucia"
    <<83, 97, 105, 110, 116, 32, 76, 117, 99, 105, 97>>,
  \* "Grenada"
    <<71, 114, 101, 110, 97, 100, 97>>,
  \* "Dominica"
    <<68, 111, 109, 105, 110, 105, 99, 97>>,
  \* "Saint Vincent and the Grenadines"
    <<83, 97, 105, 110, 116, 32, 86, 105, 110, 99, 101, 110, 116, 32, 97, 110, 100, 32, 116, 104, 101, 32, 71, 114, 101, 110, 97, 100, 105, 110, 101, 115>>,
  \* "Guyana"
    <<71, 117, 121, 97, 110, 97>>,
  \* "Suriname"
    <<83, 117, 114, 105, 110, 97, 109, 101>>,
  \* "Haiti"
    <<72, 97, 105, 116, 105>>,
  \* "Dominican Republic"
    <<68, 111, 109, 105, 110, 105, 99, 97, 110, 32, 82, 101, 112, 117, 98, 108, 105, 99>>,
  \* "Belize"
    <<66, 101, 108, 105, 122, 101>>,
  \* "Montserrat"
    <<77, 111, 110, 116, 115, 101, 114, 114, 97, 116>>,
  \* "Saint Kitts and Nevis"
    <<83, 97, 105, 110, 116, 32, 75, 105, 116, 116, 115, 32, 97, 110, 100, 32, 78, 101, 118, 105, 115>>,
  \* "St. Lucia"
    <<83, 116, 46, 32, 76, 117, 99, 105, 97>>,
  \* "St. Vincent and the Grenadines"
    <<83, 116, 46, 32, 86, 105, 110, 99, 101, 110, 116, 32, 97, 110, 100, 32, 116, 104, 101, 32, 71, 114, 101, 110, 97, 100, 105, 110, 101, 115>>,
  \* "St. Kitts and Nevis"
    <<83, 116, 46, 32, 75, 105, 116, 116, 115, 32, 97, 110, 100, 32, 78, 101, 118, 105, 115>>,
  \* "Cuba"
    <<67, 117, 98, 97>> }

\* UNIVERSITIES of doi_search.py (title_search.py and url_search.py hold the same set).
UNIVERSITIES ==
  \* "University of Guyana"
  { <<85, 110, 105, 118, 101, 114, 115, 105, 116, 121, 32, 111, 102, 32, 71, 117, 121, 97, 110, 97>>,
  \* "University of the Netherlands Antilles"
    <<85, 110, 105, 118, 101, 114, 115, 105, 116, 121, 32, 111, 102, 32, 116, 104, 101, 32, 78, 101, 116, 104, 101, 114, 108, 97, 110, 100, 115, 32, 65, 110, 116, 105, 108, 108, 101, 115>>,
  \* "Universidad de Puerto Rico"
    <<85, 110, 105, 118, 101, 114, 115, 105, 100, 97, 100, 32, 100, 101, 32, 80, 117, 101, 114, 116, 111, 32, 82, 105, 99, 111>>,
  \* "University of Belize"
    <<85, 110, 105, 118, 101, 114, 115, 105, 116, 121, 32, 111, 102, 32, 66, 101, 108, 105, 122, 101>>,
  \* "University of Trinidad and Tobago"
    <<85, 110, 105, 118, 101, 114, 115, 105, 116, 121, 32, 111, 102, 32, 84, 114, 105, 110, 105, 100, 97, 100, 32, 97, 110, 100, 32, 84, 111, 98, 97, 103, 111>>,
  \* "Caribbean Maritime University"
    <<67, 97, 114, 105, 98, 98, 101, 97, 110, 32, 77, 97, 114, 105, 116, 105, 109, 101, 32, 85, 110, 105, 118, 101, 114, 115, 105, 116, 121>>,
  \* "Anton de Kom University of Suriname"
    <<65, 110, 116, 111, 110, 32, 100, 101, 32, 75, 111, 109, 32, 85, 110, 105, 118, 101, 114, 115, 105, 116, 121, 32, 111, 102, 32, 83, 117, 114, 105, 110, 97, 109, 101>>,
  \* "University of Technology Jamaica"
    <<85, 110, 105, 118, 101, 114, 115, 105, 116, 121, 32, 111, 102, 32, 84, 101, 99, 104, 110, 111, 108, 111, 103, 121, 32, 74, 97, 109, 97, 105, 99, 97>>,
  \* "Universit? d'?tat d'Ha?ti"
    <<85, 110, 105, 118, 101, 114, 115, 105, 116, 233, 32, 100, 39, 201, 116, 97, 116, 32, 100, 39, 72, 97, 239, 116, 105>>,
  \* "Universidad Aut?noma de Santo Domingo"
    <<85, 110, 105, 118, 101, 114, 115, 105, 100, 97, 100, 32, 65, 117, 116, 243, 110, 111, 109, 97, 32, 100, 101, 32, 83, 97, 110, 116, 111, 32, 68, 111, 109, 105, 110, 103, 111>>,
  \* "University of the Bahamas"
    <<85, 110, 105, 118, 101, 114, 115, 105, 116, 121, 32, 111, 102, 32, 116, 104, 101, 32, 66, 97, 104, 97, 109, 97, 115>>,
  \* "University of the West Indies"
    <<85, 110, 105, 118, 101, 114, 115, 105, 116, 121, 32, 111, 102, 32, 116, 104, 101, 32, 87, 101, 115, 116, 32, 73, 110, 100, 105, 101, 115>>,
  \* "Universidad de la Habana"
    <<85, 110, 105, 118, 101, 114, 115, 105, 100, 97, 100, 32, 100, 101, 32, 108, 97, 32, 72, 97, 98, 97, 110, 97>>,
  \* "University of Havana"
    <<85, 110, 105, 118, 101, 114, 115, 105, 116, 121, 32, 111, 102, 32, 72, 97, 118, 97, 110, 97>>,
  \* "State University of Haiti"
    <<83, 116, 97, 116, 101, 32, 85, 110, 105, 118, 101, 114, 115, 105, 116, 121, 32, 111, 102, 32, 72, 97, 105, 116, 105>>,
  \* "University of Suriname"
    <<85, 110, 105, 118, 101, 114, 115, 105, 116, 121, 32, 111, 102, 32, 83, 117, 114, 105, 110, 97, 109, 101>>,
  \* "Autonomous University of Santo Domingo"
    <<65, 117, 116, 111, 110, 111, 109, 111, 117, 115, 32, 85, 110, 105, 118, 101, 114, 115, 105, 116, 121, 32, 111, 102, 32, 83, 97, 110, 116, 111, 32, 68, 111, 109, 105, 110, 103, 111>> }

\* CARIBBEAN_COUNTRIES of auto.py: no "Cuba".
CARIBBEAN_COUNTRIES_auto ==
  \* "Jamaica"
  { <<74, 97, 109, 97, 105, 99, 97>>,
  \* "Trinidad and Tobago"
    <<84, 114, 105, 110, 105, 100, 97, 100, 32, 97, 110, 100, 32, 84, 111, 98, 97, 103, 111>>,
  \* "Barbados"
    <<66, 97, 114, 98, 97, 100, 111, 115>>,
  \* "Bahamas"
    <<66, 97, 104, 97, 109, 97, 115>>,
  \* "Antigua and Barbuda"
    <<65, 110, 116, 105, 103, 117, 97, 32, 97, 110, 100, 32, 66, 97, 114, 98, 117, 100, 97>>,
  \* "Saint Lucia"
    <<83, 97, 105, 110, 116, 32, 76, 117, 99, 105, 97>>,
  \* "Grenada"
    <<71, 114, 101, 110, 97, 100, 97>>,
  \* "Dominica"
    <<68, 111, 109, 105, 110, 105, 99, 97>>,
  \* "Saint Vincent and the Grenadines"
    <<83, 97, 105, 110, 116, 32, 86, 105, 110, 99, 101, 110, 116, 32, 97, 110, 100, 32, 116, 104, 101, 32, 71, 114, 101, 110, 97, 100, 105, 110, 101, 115>>,
  \* "Guyana"
    <<71, 117, 121, 97, 110, 97>>,
  \* "Suriname"
    <<83, 117, 114, 105, 110, 97, 109, 101>>,
  \* "Haiti"
    <<72, 97, 105, 116, 105>>,
  \* "Dominican Republic"
    <<68, 111, 109, 105, 110, 105, 99, 97, 110, 32, 82, 101, 112, 117, 98, 108, 105, 99>>,
  \* "Belize"
    <<66, 101, 108, 105, 122, 101>>,
  \* "Montserrat"
    <<77, 111, 110, 116, 115, 101, 114, 114, 97, 116>>,
  \* "Saint Kitts and Nevis"
    <<83, 97, 105, 110, 116, 32, 75, 105, 116, 116, 115, 32, 97, 110, 100, 32, 78, 101, 118, 105, 115>>,
  \* "St. Lucia"
    <<83, 116, 46, 32, 76, 117, 99, 105, 97>>,
  \* "St. Vincent and the Grenadines"
    <<83, 116, 46, 32, 86, 105, 110, 99, 101, 110, 116, 32, 97, 110, 100, 32, 116, 104, 101, 32, 71, 114, 101, 110, 97, 100, 105, 110, 101, 115>>,
  \* "St. Kitts and Nevis"
    <<83, 116, 46, 32, 75, 105, 116, 116, 115, 32, 97, 110, 100, 32, 78, 101, 118, 105, 115>> }

\* UNIVERSITIES of auto.py: the first thirteen names only.
UNIVERSITIES_auto ==
  \* "University of Guyana"
  { <<85, 110, 105, 118, 101, 114, 115, 105, 116, 121, 32, 111, 102, 32, 71, 117, 121, 97, 110, 97>>,
  \* "University of the Netherlands Antilles"
    <<85, 110, 105, 118, 101, 114, 115, 105, 116, 121, 32, 111, 102, 32, 116, 104, 101, 32, 78, 101, 116, 104, 101, 114, 108, 97, 110, 100, 115, 32, 65, 110, 116, 105, 108, 108, 101, 115>>,
  \* "Universidad de Puerto Rico"
    <<85, 110, 105, 118, 101, 114, 115, 105, 100, 97, 100, 32, 100, 101, 32, 80, 117, 101, 114, 116, 111, 32, 82, 105, 99, 111>>,
  \* "University of Belize"
    <<85, 110, 105, 118, 101, 114, 115, 105, 116, 121, 32, 111, 102, 32, 66, 101, 108, 105, 122, 101>>,
  \* "University of Trinidad and Tobago"
    <<85, 110, 105, 118, 101, 114, 115, 105, 116, 121, 32, 111, 102, 32, 84, 114, 105, 110, 105, 100, 97, 100, 32, 97, 110, 100, 32, 84, 111, 98, 97, 103, 111>>,
  \* "Caribbean Maritime University"
    <<67, 97, 114, 105, 98, 98, 101, 97, 110, 32, 77, 97, 114, 105, 116, 105, 109, 101, 32, 85, 110, 105, 118, 101, 114, 115, 105, 116, 121>>,
  \* "Anton de Kom University of Suriname"
    <<65, 110, 116, 111, 110, 32, 100, 101, 32, 75, 111, 109, 32, 85, 110, 105, 118, 101, 114, 115, 105, 116, 121, 32, 111, 102, 32, 83, 117, 114, 105, 110, 97, 109, 101>>,
  \* "University of Technology Jamaica"
    <<85, 110, 105, 118, 101, 114, 115, 105, 116, 121, 32, 111, 102, 32, 84, 101, 99, 104, 110, 111, 108, 111, 103, 121, 32, 74, 97, 109, 97, 105, 99, 97>>,
  \* "Universit? d'?tat d'Ha?ti"
    <<85, 110, 105, 118, 101, 114, 115, 105, 116, 233, 32, 100, 39, 201, 116, 97, 116, 32, 100, 39, 72, 97, 239, 116, 105>>,
  \* "Universidad Aut?noma de Santo Domingo"
    <<85, 110, 105, 118, 101, 114, 115, 105, 100, 97, 100, 32, 65, 117, 116, 243, 110, 111, 109, 97, 32, 100, 101, 32, 83, 97, 110, 116, 111, 32, 68, 111, 109, 105, 110, 103, 111>>,
  \* "University of the Bahamas"
    <<85, 110, 105, 118, 101, 114, 115, 105, 116, 121, 32, 111, 102, 32, 116, 104, 101, 32, 66, 97, 104, 97, 109, 97, 115>>,
  \* "University of the West Indies"
    <<85, 110, 105, 118, 101, 114, 115, 105, 116, 121, 32, 111, 102, 32, 116, 104, 101, 32, 87, 101, 115, 116, 32, 73, 110, 100, 105, 101, 115>>,
  \* "Universidad de la Habana"
    <<85, 110, 105, 118, 101, 114, 115, 105, 100, 97, 100, 32, 100, 101, 32, 108, 97, 32, 72, 97, 98, 97, 110, 97>> }

\* The allow-lists a script matches against.
Universities(script) ==
  IF script = "auto" THEN UNIVERSITIES_auto ELSE UNIVERSITIES

Countries(script) ==
  IF script = "auto" THEN CARIBBEAN_COUNTRIES_auto ELSE CARIBBEAN_COUNTRIES

----------------------------------------------------------------------------
(* Python and JSON values                                                  *)

\* A spreadsheet cell or a JSON member that should hold a string: the
\* string, None/null, NaN (an empty spreadsheet cell), or a missing key.
Str(s) == [k |-> "str", s |-> s]
None   == [k |-> "null", s |-> <<>>]
NaN    == [k |-> "nan", s |-> <<>>]
Absent == [k |-> "absent", s |-> <<>>]

\* A JSON member that should hold a list.
List(l)    == [k |-> "list", l |-> l]
NoneList   == [k |-> "null", l |-> <<>>]
AbsentList == [k |-> "absent", l |-> <<>>]

\* d.get(key, "") or "": the string, and "" for a missing key, null or "".
OrEmpty(f) == IF f.k = "str" THEN f.s ELSE <<>>

\* d.get(key, []): the list, [] for a missing key (null is returned as None).
GetList(f) == IF f.k = "list" THEN f.l ELSE <<>>

\* str(x) inside an f-string or a str() call.
PyStr(f) ==
  CASE f.k = "str"    -> f.s
    [] f.k = "null"   -> <<78, 111, 110, 101>>      \* "None"
    [] f.k = "nan"    -> <<110, 97, 110>>           \* "nan"
    [] OTHER          -> <<>>

\* pd.isna(x)
IsNa(f) == f.k \in {"nan", "null"}

\* bool(x): "" and None are false; NaN is a non-zero float and is true.
Truthy(f) == f.k = "nan" \/ (f.k = "str" /\ f.s # <<>>)

\* The first 10 entries: xs[:10].
AuthorCap == 10

FirstAuthorsNoCap(xs) == xs

FirstAuthors(xs) == SubSeq(xs, 1, Min(AuthorCap, Len(xs)))

\* What an extract_* function or process_row hands back is a tuple of
\* fields, [k |-> "ret", ...], or an exception that leaves the function.
Raise == [k |-> "raise"]

\* for uni in UNIVERSITIES: if uni.lower() in inst_name.lower()
UniMatchCaseSensitive(script, inst_name) ==
  \E uni \in Universities(script) : Contains(inst_name, uni)

UniMatch(script, inst_name) ==
  \E uni \in Universities(script) : Contains(Lower(inst_name), Lower(uni))

EmptyLists ==
  [authors_list |-> <<>>, universities_list |-> <<>>,
   countries_list |-> <<>>, is_caribbean |-> FALSE, raised |-> FALSE]

----------------------------------------------------------------------------
(* extract_openalex (doi_search.py, auto.py)                               *)
(*                                                                         *)
(* An OpenAlex work: [display_name, canonical_url, authorships], each      *)
(* authorship [author |-> [k, display_name], institutions], each           *)
(* institution [display_name, country].                                    *)

\* for inst in author.get("institutions", []): ...
RECURSIVE OAInstLoop(_, _, _)
OAInstLoop(script, insts, acc) ==
  IF insts = <<>> THEN acc
  ELSE
    LET inst      == Head(insts)
        inst_name == OrEmpty(inst.display_name)
        country   == OrEmpty(inst.country)
        a1 == IF inst_name # <<>>
                THEN [acc EXCEPT
                        !.universities_list = Append(@, inst_name),
                        !.is_caribbean = @ \/ UniMatch(script, inst_name)]
                ELSE acc
        a2 == IF country # <<>>
                THEN [a1 EXCEPT
                        !.countries_list = Append(@, country),
                        !.is_caribbean = @ \/ country \in Countries(script)]
                ELSE a1
    IN  OAInstLoop(script, Tail(insts), a2)

\* for author in work.get("authorships", [])[:10]: ...
\* author["author"]["display_name"] raises KeyError or TypeError when the
\* entry has no author object or the object no display_name; iterating a
\* null institutions raises TypeError; a null display_name is appended as
\* None and the join of line 95 raises TypeError.
RECURSIVE OAAuthorLoop(_, _, _)
OAAuthorLoop(script, authors, acc) ==
  IF authors = <<>> \/ acc.raised THEN acc
  ELSE
    LET author == Head(authors)
    IN  IF \/ author.author.k # "obj"
           \/ author.author.display_name.k # "str"
           \/ author.institutions.k = "null"
          THEN [acc EXCEPT !.raised = TRUE]
          ELSE OAAuthorLoop(script, Tail(authors),
                 OAInstLoop(script, GetList(author.institutions),
                   [acc EXCEPT !.authors_list =
                                  Append(@, author.author.display_name.s)]))

\* The loops of extract_openalex over a work (None[:10] raises TypeError).
OALists(script, work) ==
  IF work.authorships.k = "null"
    THEN [EmptyLists EXCEPT !.raised = TRUE]
    ELSE OAAuthorLoop(script, FirstAuthors(GetList(work.authorships)), EmptyLists)

\* "Yes" if is_caribbean else "No"
Verdict(flag) == IF flag THEN "Yes" ELSE "No"

extract_openalex(script, work) ==
  LET ls == OALists(script, work)
  IN  IF ls.raised THEN Raise
      ELSE [k |-> "ret",
            resolved_title |-> OrEmpty(work.display_name),
            authors        |-> PipeJoin(ls.authors_list),
            universities   |-> PipeJoin(ls.universities_list),
            countries      |-> PipeJoin(ls.countries_list),
            caribbean      |-> Verdict(ls.is_caribbean),
            url            |-> OrEmpty(work.canonical_url)]

----------------------------------------------------------------------------
(* extract_crossref (doi_search.py, auto.py)                               *)
(*                                                                         *)
(* A Crossref work: [title, author, DOI], each author [given, family,      *)
(* affiliation], each affiliation [name].                                  *)

\* for c in CARIBBEAN_COUNTRIES: if c.lower() in inst_name.lower():
\*     countries_list.append(c)
CountriesNamedIn(script, inst_name) ==
  {c \in Countries(script) : Contains(Lower(inst_name), Lower(c))}

\* for aff in author.get("affiliation", []): ...
\* (the order in which the country loop appends is the set's iteration
\* order; the list is only used through sorted(set(...)))
RECURSIVE CRAffLoop(_, _, _)
CRAffLoop(script, affs, acc) ==
  IF affs = <<>> THEN acc
  ELSE
    LET inst_name == OrEmpty(Head(affs).name)
        named     == CountriesNamedIn(script, inst_name)
        a1 == IF inst_name # <<>>
                THEN [acc EXCEPT
                        !.universities_list = Append(@, inst_name),
                        !.countries_list = @ \o Sorted(named),
                        !.is_caribbean = \/ @
                                         \/ UniMatch(script, inst_name)
                                         \/ named # {}]
                ELSE acc
    IN  CRAffLoop(script, Tail(affs), a1)

\* f"{author.get('given','')} {author.get('family','')}".strip()
CRName(author) ==
  Strip(PyStr(author.given) \o <<32>> \o PyStr(author.family))

\* for author in work.get("author", [])[:10]: ...
RECURSIVE CRAuthorLoop(_, _, _)
CRAuthorLoop(script, authors, acc) ==
  IF authors = <<>> \/ acc.raised THEN acc
  ELSE
    LET author == Head(authors)
        name   == CRName(author)
        a1     == IF name # <<>>
                    THEN [acc EXCEPT !.authors_list = Append(@, name)]
                    ELSE acc
    IN  IF author.affiliation.k = "null"
          THEN [acc EXCEPT !.raised = TRUE]
          ELSE CRAuthorLoop(script, Tail(authors),
                 CRAffLoop(script, GetList(author.affiliation), a1))

CRLists(script, work) ==
  IF work.author.k = "null"
    THEN [EmptyLists EXCEPT !.raised = TRUE]
    ELSE CRAuthorLoop(script, FirstAuthors(GetList(work.author)), EmptyLists)

\* "https://doi.org/"
DoiOrg == <<104, 116, 116, 112, 115, 58, 47, 47, 100, 111, 105, 46, 111, 114, 103, 47>>

\* doi_search.py: f"https://doi.org/{doi}" if doi else ""
\* auto.py:       f"https://doi.org/{work.get('DOI','')}"
CRUrl(script, work, doi) ==
  IF script = "auto" THEN DoiOrg \o PyStr(work.DOI)
  ELSE IF doi # <<>> THEN DoiOrg \o doi
  ELSE <<>>

\* titles = work.get("title", []); titles[0] if titles else ""
CRTitle(work) ==
  IF GetList(work.title) = <<>> THEN <<>> ELSE Head(GetList(work.title))

extract_crossref(script, work, doi) ==
  LET ls == CRLists(script, work)
  IN  IF ls.raised THEN Raise
      ELSE [k |-> "ret",
            resolved_title |-> CRTitle(work),
            authors        |-> PipeJoin(ls.authors_list),
            universities   |-> PipeJoin(ls.universities_list),
            countries      |-> PipeJoin(ls.countries_list),
            caribbean      |-> Verdict(ls.is_caribbean),
            url            |-> CRUrl(script, work, doi)]

----------------------------------------------------------------------------
(* The adapters: fetch_openalex_by_doi, fetch_crossref_by_doi              *)
(*                                                                         *)
(* What the network does on one request: requests.get raises (connection   *)
(* error, timeout), or a response arrives with a status code and a body.   *)
(* A body is not JSON ("invalid") or a JSON document.  A JSON value the    *)
(* code goes on to treat as a work is null, a falsy value such as {},      *)
(* a true value that is no object ("nonobj": a list, a string, a number)   *)
(* or a work object.                                                       *)

HttpException == [k |-> "exception"]
HttpResponse(status_code, body) ==
  [k |-> "response", status_code |-> status_code, body |-> body]

InvalidBody == [k |-> "invalid"]
JNull       == [k |-> "null"]
JFalsy      == [k |-> "falsy"]
JNonObj     == [k |-> "nonobj"]
JWork(w)    == [k |-> "work", work |-> w]
\* A Crossref document {"message": m}; JNull as m stands for no such key too.
JDoc(m)     == [k |-> "doc", message |-> m]

\* if work:
JTruthy(j) == j.k \in {"nonobj", "work"}

\* try: r = requests.get(...); if r.status_code != 200: return None
\*      return r.json()
\* except: return None
fetch_openalex_by_doi(http) ==
  IF http.k = "exception" THEN JNull
  ELSE IF http.status_code # 200 THEN JNull
  ELSE IF http.body.k = "invalid" THEN JNull
  ELSE http.body

\* ... return r.json().get("message"); a body that is no object has no
\* .get, and the bare except turns the AttributeError into None.
fetch_crossref_by_doi(http) ==
  IF http.k = "exception" THEN JNull
  ELSE IF http.status_code # 200 THEN JNull
  ELSE IF http.body.k # "doc" THEN JNull
  ELSE http.body.message

----------------------------------------------------------------------------
(* process_row (doi_search.py, auto.py)                                    *)
(*                                                                         *)
(* A row is [DOI, Title, Article_URL]; net is what the network answers to  *)
(* each request made for this row: [openalex, crossref, search, url].      *)
(* The value is [ret, calls]: what process_row returns (or Raise) and the  *)
(* adapter calls it made, in order, each with its argument.                *)

\* row.get("DOI", "")
GetCell(cell) == IF cell.k = "absent" THEN Str(<<>>) ELSE cell

\* doi_search.py 143-149: NaN and None become "", anything else str().strip()
\* auto.py 153: str(row.get("DOI", "")).strip()
RowDoi(script, row) ==
  IF script = "auto" THEN Strip(PyStr(GetCell(row.DOI)))
  ELSE IF IsNa(GetCell(row.DOI)) THEN <<>>
  ELSE Strip(PyStr(GetCell(row.DOI)))

\* ".,);"
DoiPunct == {46, 44, 41, 59}

RStripDoiNoSemicolon(doi) == RStripChars(doi, {46, 44, 41})

\* doi.rstrip(".,);")
RStripDoi(doi) == RStripChars(doi, DoiPunct)

Call(adapter, arg) == [adapter |-> adapter, arg |-> arg]

ManualVerdict == "Needs Manual Verification"

\* return "", "", "", "", "Needs Manual Verification", ""      (doi_search.py)
\* return "", "", "", "", "Needs Manual Verification", "", doi (auto.py)
ManualResult ==
  [k |-> "ret", resolved_title |-> <<>>, authors |-> <<>>,
   universities |-> <<>>, countries |-> <<>>,
   caribbean |-> ManualVerdict, url |-> <<>>]

\* auto.py returns the DOI it looked up as a seventh element; doi_search.py
\* returns six elements and the field stays "".
WithDoi(script, r, doi) ==
  IF r.k = "raise" THEN r
  ELSE [k |-> "ret", resolved_title |-> r.resolved_title,
        authors |-> r.authors, universities |-> r.universities,
        countries |-> r.countries, caribbean |-> r.caribbean, url |-> r.url,
        doi |-> IF script = "auto" THEN doi ELSE <<>>]

\* extract_*(work) on a true value that is no object: work.get raises
\* AttributeError.
ExtractOA(script, j) ==
  IF j.k = "work" THEN extract_openalex(script, j.work) ELSE Raise

ExtractCR(script, j, doi) ==
  IF j.k = "work" THEN extract_crossref(script, j.work, doi) ELSE Raise

process_row_crossref_first(script, row, net) ==
  LET doi0 == RowDoi(script, row)
      doi  == RStripDoi(doi0)
      cr   == fetch_crossref_by_doi(net.crossref)
      oa   == fetch_openalex_by_doi(net.openalex)
  IN  IF doi0 = <<>>
        THEN [ret |-> WithDoi(script, ManualResult, <<>>), calls |-> <<>>]
      ELSE IF JTruthy(cr)
        THEN [ret |-> WithDoi(script, ExtractCR(script, cr, doi), doi),
              calls |-> <<Call("crossref_doi", doi)>>]
      ELSE IF JTruthy(oa)
        THEN [ret |-> WithDoi(script, ExtractOA(script, oa), doi),
              calls |-> <<Call("crossref_doi", doi), Call("openalex_doi", doi)>>]
      ELSE [ret |-> WithDoi(script, ManualResult, doi),
            calls |-> <<Call("crossref_doi", doi), Call("openalex_doi", doi)>>]

process_row_drops_crossref(script, row, net) ==
  LET doi0 == RowDoi(script, row)
      doi  == RStripDoi(doi0)
      oa   == fetch_openalex_by_doi(net.openalex)
  IN  IF doi0 = <<>>
        THEN [ret |-> WithDoi(script, ManualResult, <<>>), calls |-> <<>>]
      ELSE IF JTruthy(oa)
        THEN [ret |-> WithDoi(script, ExtractOA(script, oa), doi),
              calls |-> <<Call("openalex_doi", doi)>>]
      ELSE [ret |-> WithDoi(script, ManualResult, doi),
            calls |-> <<Call("openalex_doi", doi), Call("crossref_doi", doi)>>]

process_row_doi(script, row, net) ==
  LET doi0 == RowDoi(script, row)
      doi  == RStripDoi(doi0)
      oa   == fetch_openalex_by_doi(net.openalex)
      cr   == fetch_crossref_by_doi(net.crossref)
  IN  IF doi0 = <<>>
        THEN [ret |-> WithDoi(script, ManualResult, <<>>), calls |-> <<>>]
      ELSE IF JTruthy(oa)
        THEN [ret |-> WithDoi(script, ExtractOA(script, oa), doi),
              calls |-> <<Call("openalex_doi", doi)>>]
      ELSE IF JTruthy(cr)
        THEN [ret |-> WithDoi(script, ExtractCR(script, cr, doi), doi),
              calls |-> <<Call("openalex_doi", doi), Call("crossref_doi", doi)>>]
      ELSE [ret |-> WithDoi(script, ManualResult, doi),
            calls |-> <<Call("openalex_doi", doi), Call("crossref_doi", doi)>>]

----------------------------------------------------------------------------
(* title_search.py: search_by_title, extract_affiliation_info, process_row *)

\* "; ".join(set(xs)): a set is iterated in an order the hash seed decides,
\* so the joined string is any of the orderings of the distinct elements.
Orderings(S) ==
  {p \in [1..Cardinality(S) -> S] : \A i, j \in 1..Cardinality(S) : p[i] = p[j] => i = j}

\* "; "
SemiJoins(xs) == {Str(Join(<<59, 32>>, p)) : p \in Orderings(ToSet(xs))}

\* "; ".join(set(xs)) if xs else None
SemiJoinsOrNone(xs) == IF xs = <<>> THEN {None} ELSE SemiJoins(xs)

\* A search document {"results": [...]}.
JResults(rs) == [k |-> "results", results |-> rs]

\* try: r = requests.get(url, params=...)
\*      if r.status_code == 200:
\*          results = r.json().get("results", []); if results: return results[0]
\* except: return None
\* return None
search_by_title(http) ==
  IF http.k = "exception" THEN JNull
  ELSE IF http.status_code # 200 THEN JNull
  ELSE IF http.body.k # "results" THEN JNull
  ELSE IF http.body.results = <<>> THEN JNull
  ELSE Head(http.body.results)

EmptyAff ==
  [institutions |-> <<>>, countries |-> <<>>, caribbean_flag |-> FALSE,
   raised |-> FALSE]

\* for inst in authorship.get("institutions", []): ...     (lines 69-85)
RECURSIVE AffInstLoop(_, _)
AffInstLoop(insts, acc) ==
  IF insts = <<>> THEN acc
  ELSE
    LET name         == OrEmpty(Head(insts).display_name)
        country_name == OrEmpty(Head(insts).country)
        a1 == IF name # <<>>
                THEN [acc EXCEPT
                        !.institutions = Append(@, name),
                        !.caribbean_flag = @ \/ UniMatch("title_search", name)]
                ELSE acc
        a2 == IF country_name # <<>>
                THEN [a1 EXCEPT
                        !.countries = Append(@, country_name),
                        !.caribbean_flag =
                           @ \/ country_name \in Countries("title_search")]
                ELSE a1
    IN  AffInstLoop(Tail(insts), a2)

\* for authorship in work.get("authorships", []): ...      (line 68, no cap)
RECURSIVE AffAuthorLoop(_, _)
AffAuthorLoop(authorships, acc) ==
  IF authorships = <<>> \/ acc.raised THEN acc
  ELSE IF Head(authorships).institutions.k = "null"
    THEN [acc EXCEPT !.raised = TRUE]
  ELSE AffAuthorLoop(Tail(authorships),
         AffInstLoop(GetList(Head(authorships).institutions), acc))

\* extract_affiliation_info of title_search.py: the set of tuples it may
\* return (one per iteration order of the two sets), or {Raise}.
extract_affiliation_info_title(j) ==
  IF ~JTruthy(j)
    THEN {[k |-> "ret", Institutions |-> None, Countries |-> None,
           Caribbean_Affiliated |-> FALSE]}
  ELSE IF j.k # "work" \/ j.work.authorships.k = "null" THEN {Raise}
  ELSE
    LET acc == AffAuthorLoop(GetList(j.work.authorships), EmptyAff)
    IN  IF acc.raised THEN {Raise}
        ELSE {[k |-> "ret", Institutions |-> i, Countries |-> c,
               Caribbean_Affiliated |-> acc.caribbean_flag] :
                 i \in SemiJoinsOrNone(acc.institutions),
                 c \in SemiJoinsOrNone(acc.countries)}

\* "YES" if not work else "NO"
ManualFlag(j) == IF JTruthy(j) THEN "NO" ELSE "YES"

process_row_title_no_search(row, net) ==
  {[ret |-> [k |-> "ret", Institutions |-> None, Countries |-> None,
             Caribbean_Affiliated |-> FALSE, Manual_Review |-> "YES"],
    calls |-> <<>>]}

\* process_row of title_search.py: title = row.get("Title", ""); the search
\* runs when title is true (NaN, a float, is true); the DOI is never read.
process_row_title(row, net) ==
  LET title  == GetCell(row.Title)
      called == Truthy(title)
      work   == IF called THEN search_by_title(net.search) ELSE JNull
      calls  == IF called THEN <<Call("openalex_title", PyStr(title))>> ELSE <<>>
  IN  {[ret |-> IF e.k = "raise" THEN Raise
                ELSE [k |-> "ret", Institutions |-> e.Institutions,
                      Countries |-> e.Countries,
                      Caribbean_Affiliated |-> e.Caribbean_Affiliated,
                      Manual_Review |-> ManualFlag(work)],
        calls |-> calls] : e \in extract_affiliation_info_title(work)}

----------------------------------------------------------------------------
(* url_search.py: extract_doi_from_url, check_url_access,                  *)
(* extract_affiliation_info, process_row                                   *)

IsDigit(c) == c \in 48..57

\* [-._;()/:A-Z0-9] under re.I
IsDoiChar(c) ==
  \/ c \in {45, 46, 95, 59, 40, 41, 47, 58}
  \/ c \in 65..90 \/ c \in 97..122 \/ IsDigit(c)

\* The number of leading characters of s that satisfy the class.
RECURSIVE DigitRun(_)
DigitRun(s) == IF s # <<>> /\ IsDigit(Head(s)) THEN 1 + DigitRun(Tail(s)) ELSE 0

RECURSIVE DoiCharRun(_)
DoiCharRun(s) ==
  IF s # <<>> /\ IsDoiChar(Head(s)) THEN 1 + DoiCharRun(Tail(s)) ELSE 0

Rest(s, p) == SubSeq(s, p, Len(s))

\* The length of the match of 10\.\d{4,9}/[-._;()/:A-Z0-9]+ at position p of
\* s, or 0: "10.", a run of 4 to 9 digits ended by "/", then the longest
\* non-empty run of class characters.
DoiMatchAt(s, p) ==
  IF p + 2 > Len(s) \/ SubSeq(s, p, p + 2) # <<49, 48, 46>> THEN 0
  ELSE
    LET d == DigitRun(Rest(s, p + 3))
        q == p + 3 + d
    IN  IF d < 4 \/ d > 9 \/ q > Len(s) \/ s[q] # 47 THEN 0
        ELSE LET c == DoiCharRun(Rest(s, q + 1))
             IN  IF c = 0 THEN 0 ELSE 3 + d + 1 + c

\* re.search(doi_pattern, url, re.I): the leftmost match, group(1); None
\* when there is none ("" here, which the caller's `if doi:` treats alike).
extract_doi_from_url(url) ==
  LET hits == {p \in 1..Len(url) : DoiMatchAt(url, p) > 0}
  IN  IF hits = {} THEN <<>>
      ELSE LET p == CHOOSE x \in hits : \A y \in hits : x <= y
           IN  SubSeq(url, p, p + DoiMatchAt(url, p) - 1)

NoneInt == [k |-> "null"]
IntVal(n) == [k |-> "int", n |-> n]

\* check_url_access(url) when url is not empty
check_url_access(http) ==
  IF http.k = "exception"
    THEN [status_code |-> NoneInt, reachable |-> "NO"]
    ELSE [status_code |-> IntVal(http.status_code),
          reachable |-> IF http.status_code = 200 THEN "YES" ELSE "NO"]

EmptyUrlAff ==
  [author_names |-> <<>>, matched_unis |-> <<>>, affiliated_flag |-> FALSE,
   raised |-> FALSE]

\* for inst in authorship.get("institutions", []): ...   (lines 101-105)
RECURSIVE UrlInstLoop(_, _)
UrlInstLoop(insts, acc) ==
  IF insts = <<>> THEN acc
  ELSE
    LET inst_name == OrEmpty(Head(insts).display_name)
    IN  UrlInstLoop(Tail(insts),
          IF inst_name # <<>> /\ UniMatch("url_search", inst_name)
            THEN [acc EXCEPT !.matched_unis = Append(@, inst_name),
                             !.affiliated_flag = TRUE]
            ELSE acc)

\* for authorship in work.get("authorships", []): ...    (lines 94-105)
\* authorship.get("author", {}).get("display_name"): a null author has no
\* .get (AttributeError); a missing one gives no name.
RECURSIVE UrlAuthorLoop(_, _)
UrlAuthorLoop(authorships, acc) ==
  IF authorships = <<>> \/ acc.raised THEN acc
  ELSE
    LET a    == Head(authorships)
        name == IF a.author.k = "obj" THEN OrEmpty(a.author.display_name) ELSE <<>>
        a1   == IF name # <<>>
                  THEN [acc EXCEPT !.author_names = Append(@, name)]
                  ELSE acc
    IN  IF a.author.k = "null" \/ a.institutions.k = "null"
          THEN [acc EXCEPT !.raised = TRUE]
          ELSE UrlAuthorLoop(Tail(authorships),
                 UrlInstLoop(GetList(a.institutions), a1))

extract_affiliation_info_url(j) ==
  IF ~JTruthy(j)
    THEN {[k |-> "ret", Authors |-> None, Matched_Universities |-> None,
           Caribbean_Affiliated |-> FALSE]}
  ELSE IF j.k # "work" \/ j.work.authorships.k = "null" THEN {Raise}
  ELSE
    LET acc == UrlAuthorLoop(GetList(j.work.authorships), EmptyUrlAff)
    IN  IF acc.raised THEN {Raise}
        ELSE {[k |-> "ret", Authors |-> a, Matched_Universities |-> m,
               Caribbean_Affiliated |-> acc.affiliated_flag] :
                 a \in SemiJoinsOrNone(acc.author_names),
                 m \in SemiJoinsOrNone(acc.matched_unis)}

\* process_row of url_search.py.  (row.get and str() do not raise on a cell,
\* so the except branch of lines 125-133 is never taken.)
process_row_url(row, net) ==
  LET cell        == GetCell(row.Article_URL)
      article_url == IF IsNa(cell) THEN <<>> ELSE Strip(PyStr(cell))
      access      == IF article_url = <<>>
                       THEN [status_code |-> NoneInt, reachable |-> "NO"]
                       ELSE check_url_access(net.url)
      doi         == extract_doi_from_url(article_url)
      work        == IF doi # <<>> THEN fetch_openalex_by_doi(net.openalex) ELSE JNull
      calls       == (IF article_url # <<>> THEN <<Call("url_get", article_url)>> ELSE <<>>)
                     \o (IF doi # <<>> THEN <<Call("openalex_doi", doi)>> ELSE <<>>)
  IN  {[ret |-> IF e.k = "raise" THEN Raise
                ELSE [k |-> "ret",
                      URL_Status_Code |-> access.status_code,
                      URL_Reachable |-> access.reachable,
                      Authors |-> e.Authors,
                      Matched_Universities |-> e.Matched_Universities,
                      Caribbean_Affiliated |-> e.Caribbean_Affiliated,
                      Manual_Review |-> ManualFlag(work)],
        calls |-> calls] : e \in extract_affiliation_info_url(work)}

----------------------------------------------------------------------------
\* process_row of a script on a row: every [ret, calls] it may produce.
process_row(script, row, net) ==
  CASE script \in {"doi_search", "auto"} -> {process_row_doi(script, row, net)}
    [] script = "title_search"            -> process_row_title(row, net)
    [] script = "url_search"              -> process_row_url(row, net)

----------------------------------------------------------------------------
(* Inputs: rows, works and network answers the runs below draw from        *)

Row(doi, title, article_url) ==
  [DOI |-> doi, Title |-> title, Article_URL |-> article_url]

Net(openalex, crossref, search, url) ==
  [openalex |-> openalex, crossref |-> crossref, search |-> search, url |-> url]

s_doi_a     == <<49, 48, 46, 49, 47, 97>>                      \* "10.1/a"
s_doi_b_raw == <<32, 49, 48, 46, 49, 47, 98, 46, 32>>          \* " 10.1/b. "
s_T1        == <<84, 49>>                                      \* "T1"
s_Ann       == <<65, 110, 110>>                                \* "Ann"
s_Bo        == <<66, 111>>                                     \* "Bo"
s_Li        == <<76, 105>>                                     \* "Li"
s_P         == <<80>>                                          \* "P"
s_url_a     == <<104, 116, 116, 112, 115, 58, 47, 47, 97, 47>> \* "https://a/"
\* "University of Guyana"
s_UG == <<85, 110, 105, 118, 101, 114, 115, 105, 116, 121, 32, 111, 102, 32, 71, 117, 121, 97, 110, 97>>
\* "university of the west indies, mona"
s_uwi_lower == <<117, 110, 105, 118, 101, 114, 115, 105, 116, 121, 32, 111, 102, 32, 116, 104, 101, 32, 119, 101, 115, 116, 32, 105, 110, 100, 105, 101, 115, 44, 32, 109, 111, 110, 97>>
\* "Harvard University"
s_Harvard == <<72, 97, 114, 118, 97, 114, 100, 32, 85, 110, 105, 118, 101, 114, 115, 105, 116, 121>>
\* "Kingston Hospital, jamaica"
s_Kingston == <<75, 105, 110, 103, 115, 116, 111, 110, 32, 72, 111, 115, 112, 105, 116, 97, 108, 44, 32, 106, 97, 109, 97, 105, 99, 97>>
\* "Universidad de La Habana"
s_Habana == <<85, 110, 105, 118, 101, 114, 115, 105, 100, 97, 100, 32, 100, 101, 32, 76, 97, 32, 72, 97, 98, 97, 110, 97>>
s_Jamaica == <<74, 97, 109, 97, 105, 99, 97>>                  \* "Jamaica"
s_jamaica == <<106, 97, 109, 97, 105, 99, 97>>                 \* "jamaica"
s_Cuba    == <<67, 117, 98, 97>>                               \* "Cuba"
\* "United States"
s_US == <<85, 110, 105, 116, 101, 100, 32, 83, 116, 97, 116, 101, 115>>
\* "https://doi.org/10.1234/ab"
s_url_doi == <<104, 116, 116, 112, 115, 58, 47, 47, 100, 111, 105, 46, 111, 114, 103, 47, 49, 48, 46, 49, 50, 51, 52, 47, 97, 98>>

Inst(display_name, country) == [display_name |-> display_name, country |-> country]
AuthorObj(display_name) == [k |-> "obj", display_name |-> display_name]
NoAuthor   == [k |-> "absent", display_name |-> Absent]
NullAuthor == [k |-> "null", display_name |-> Absent]
Authorship(author, institutions) == [author |-> author, institutions |-> institutions]
OAWork(display_name, canonical_url, authorships) ==
  [display_name |-> display_name, canonical_url |-> canonical_url,
   authorships |-> authorships]

Aff(name) == [name |-> name]
CRAuthor(given, family, affiliation) ==
  [given |-> given, family |-> family, affiliation |-> affiliation]
CRWork(title, author, doi) == [title |-> title, author |-> author, DOI |-> doi]

\* An OpenAlex work of one author at the University of Guyana.
OAWorkGuyana ==
  OAWork(Str(s_P), Str(s_url_a),
         List(<<Authorship(AuthorObj(Str(s_Ann)), List(<<Inst(Str(s_UG), Absent)>>))>>))

\* An OpenAlex work of two authors at two institutions.
OAWorkTwo ==
  OAWork(Str(s_P), None,
         List(<<Authorship(AuthorObj(Str(s_Bo)), List(<<Inst(Str(s_Harvard), Str(s_US))>>)),
                Authorship(AuthorObj(Str(s_Ann)), List(<<Inst(Str(s_UG), Str(s_US))>>))>>))

\* OpenAlex works whose payload lacks what the code indexes.
OAWorkNoAuthorKey ==
  OAWork(Str(s_P), Str(s_url_a), List(<<Authorship(NoAuthor, List(<<>>))>>))
OAWorkNullAuthorships == OAWork(Str(s_P), Str(s_url_a), NoneList)
OAWorkNullAuthor ==
  OAWork(Str(s_P), Str(s_url_a), List(<<Authorship(NullAuthor, List(<<>>))>>))

\* A Crossref work of one author at Harvard.
CRWorkHarvard ==
  CRWork(List(<<s_P>>),
         List(<<CRAuthor(Str(s_Bo), Str(s_Li), List(<<Aff(Str(s_Harvard))>>))>>),
         Str(s_doi_a))

Ok(body)  == HttpResponse(200, body)
NotFound  == HttpResponse(404, InvalidBody)
NoRequest == HttpException

\* The rows of a DOI table with the answers the network gives for each.
DoiItems ==
  { [row |-> Row(Str(s_doi_a), Str(s_T1), Absent),
     net |-> Net(Ok(JWork(OAWorkGuyana)), NotFound, NoRequest, NoRequest)],
    [row |-> Row(Str(s_doi_a), Str(s_T1), Absent),
     net |-> Net(NotFound, Ok(JDoc(JWork(CRWorkHarvard))), NoRequest, NoRequest)],
    [row |-> Row(Str(s_doi_b_raw), NaN, Absent),
     net |-> Net(HttpException, NotFound, NoRequest, NoRequest)],
    [row |-> Row(NaN, Str(s_T1), Absent),
     net |-> Net(NotFound, HttpException, NoRequest, NoRequest)],
    [row |-> Row(Str(<<32>>), Str(s_T1), Absent),
     net |-> Net(NotFound, NotFound, NoRequest, NoRequest)],
    [row |-> Row(NaN, NaN, Absent),
     net |-> Net(NotFound, NotFound, NoRequest, NoRequest)],
    [row |-> Row(Str(s_doi_a), NaN, Absent),
     net |-> Net(Ok(JWork(OAWorkNoAuthorKey)), NotFound, NoRequest, NoRequest)] }

TitleItems ==
  { [row |-> Row(Absent, Str(s_T1), Absent),
     net |-> Net(NoRequest, NoRequest, Ok(JResults(<<JWork(OAWorkGuyana)>>)), NoRequest)],
    [row |-> Row(Absent, Str(s_T1), Absent),
     net |-> Net(NoRequest, NoRequest, Ok(JResults(<<JWork(OAWorkTwo)>>)), NoRequest)],
    [row |-> Row(Absent, Str(<<>>), Absent),
     net |-> Net(NoRequest, NoRequest, NotFound, NoRequest)],
    [row |-> Row(Absent, Str(s_T1), Absent),
     net |-> Net(NoRequest, NoRequest, HttpException, NoRequest)],
    [row |-> Row(Absent, NaN, Absent),
     net |-> Net(NoRequest, NoRequest, Ok(JResults(<<>>)), NoRequest)],
    [row |-> Row(Absent, Str(s_T1), Absent),
     net |-> Net(NoRequest, NoRequest, Ok(JResults(<<JWork(OAWorkNullAuthorships)>>)), NoRequest)] }

UrlItems ==
  { [row |-> Row(Absent, Absent, Str(s_url_doi)),
     net |-> Net(Ok(JWork(OAWorkGuyana)), NoRequest, NoRequest, Ok(InvalidBody))],
    [row |-> Row(Absent, Absent, Str(s_url_a)),
     net |-> Net(NotFound, NoRequest, NoRequest, HttpException)],
    [row |-> Row(Absent, Absent, NaN),
     net |-> Net(NotFound, NoRequest, NoRequest, NotFound)],
    [row |-> Row(Absent, Absent, Str(s_url_doi)),
     net |-> Net(Ok(JWork(OAWorkNullAuthor)), NoRequest, NoRequest, NotFound)] }

Scripts == {"doi_search", "auto", "title_search", "url_search"}

Items(s) ==
  CASE s \in {"doi_search", "auto"} -> DoiItems
    [] s = "title_search"           -> TitleItems
    [] s = "url_search"             -> UrlItems

\* The longest input table.
MaxRows == 2

Tables(s) == UNION {[1..n -> Items(s)] : n \in 0..MaxRows}

----------------------------------------------------------------------------
(* main: the fan-out over the rows and the collection of the results       *)

VARIABLES
  script,         \* which script runs
  table,          \* the spreadsheet as read, each row with its network answers
  df,             \* the table main works on
  max_workers,    \* the size of the thread pool
  task,           \* per row: "new", "queued" (submitted, not finished) or "finished"
  future,         \* per row: what its future holds once finished
  fin,            \* the rows in the order their futures finished
  snap,           \* the futures as_completed found finished when it started
  yielded,        \* the futures as_completed has handed to the loop
  cols,           \* doi_search.py, auto.py: the pre-sized output columns
  results,        \* title_search.py, url_search.py: the results list
  manual_review,  \* the manual-review list
  final_df,       \* the table that is written
  pc,             \* where main is
  run,            \* 1, or 2 when the fan-out is run again over the same input
  prev,           \* the table the first run wrote
  work,           \* the work handed to an extract function
  extracted       \* what the extract function made of it

vars ==
  <<script, table, df, max_workers, task, future, fin, snap, yielded, cols,
    results, manual_review, final_df, pc, run, prev, work, extracted>>

IsDoiScript(s) == s \in {"doi_search", "auto"}

\* ThreadPoolExecutor(max_workers=10) / MAX_WORKERS = 5
DoiMaxWorkers == 10
MAX_WORKERS == 5
PoolSize(s) == IF IsDoiScript(s) THEN DoiMaxWorkers ELSE MAX_WORKERS

NoFuture == [ret |-> [k |-> "pending"], calls |-> <<>>]
NoCols ==
  [resolved_titles |-> <<>>, authors_col |-> <<>>, universities_col |-> <<>>,
   countries_col |-> <<>>, caribbean_col |-> <<>>, url_col |-> <<>>,
   final_doi_col |-> <<>>]
NoWork == [k |-> "none"]

Init ==
  /\ script \in Scripts
  /\ table \in Tables(script)
  /\ df = <<>>
  /\ max_workers = PoolSize(script)
  /\ task = <<>>
  /\ future = <<>>
  /\ fin = <<>>
  /\ snap = {}
  /\ yielded = {}
  /\ cols = NoCols
  /\ results = <<>>
  /\ manual_review = <<>>
  /\ final_df = <<>>
  /\ pc = "read"
  /\ run = 1
  /\ prev = <<>>
  /\ work = NoWork
  /\ extracted = NoWork

\* df.dropna(how="all"): a row all of whose cells are empty is dropped.
AllNa(item) ==
  \A c \in {item.row.DOI, item.row.Title, item.row.Article_URL} :
    c.k \in {"nan", "null", "absent"}

\* df[df["DOI"].astype(str).str.strip() != ""]
HasDoiText(item) == Strip(PyStr(item.row.DOI)) # <<>>

KeepDoiRow(item) == ~AllNa(item) /\ HasDoiText(item)

\* The rows that are kept, in their order; reset_index renumbers them.
RECURSIVE FilterDoiRows(_)
FilterDoiRows(xs) ==
  IF xs = <<>> THEN <<>>
  ELSE IF KeepDoiRow(Head(xs)) THEN <<Head(xs)>> \o FilterDoiRows(Tail(xs))
  ELSE FilterDoiRows(Tail(xs))

\* [""] * n
Blank(n) == [i \in 1..n |-> <<>>]

\* Reading the table and pre-sizing the output (doi_search.py 177-192,
\* auto.py 180-196; title_search.py 115-118, url_search.py 161-164).
ReadInput ==
  /\ pc = "read"
  /\ LET d == IF IsDoiScript(script) THEN FilterDoiRows(table) ELSE table
         n == Len(d)
     IN  /\ df' = d
         /\ task' = [i \in 1..n |-> "new"]
         /\ future' = [i \in 1..n |-> NoFuture]
         /\ cols' = IF IsDoiScript(script)
                      THEN [resolved_titles |-> Blank(n), authors_col |-> Blank(n),
                            universities_col |-> Blank(n), countries_col |-> Blank(n),
                            caribbean_col |-> [i \in 1..n |-> ManualVerdict],
                            url_col |-> Blank(n),
                            final_doi_col |-> IF script = "auto" THEN Blank(n) ELSE <<>>]
                      ELSE NoCols
  /\ fin' = <<>> /\ snap' = {} /\ yielded' = {}
  /\ results' = <<>> /\ manual_review' = <<>> /\ final_df' = <<>>
  /\ pc' = "submit"
  /\ UNCHANGED <<script, table, max_workers, run, prev, work, extracted>>

\* executor.submit(process_row, row) for the next row, in row order.
Submit ==
  /\ pc = "submit"
  /\ \E i \in 1..Len(df) :
       /\ task[i] = "new"
       /\ \A j \in 1..(i - 1) : task[j] # "new"
       /\ task' = [task EXCEPT ![i] = "queued"]
  /\ UNCHANGED <<script, table, df, max_workers, future, fin, snap, yielded,
                 cols, results, manual_review, final_df, pc, run, prev, work,
                 extracted>>

\* A pool thread runs process_row on row i to its end.  The pool hands out
\* the queued rows in submission order to max_workers threads, so row i can
\* finish only while fewer than max_workers earlier rows are unfinished.
FinishTask(i) ==
  /\ task[i] = "queued"
  /\ Cardinality({j \in 1..(i - 1) : task[j] = "queued"}) < max_workers
  /\ \E o \in process_row(script, df[i].row, df[i].net) :
       future' = [future EXCEPT ![i] = o]
  /\ task' = [task EXCEPT ![i] = "finished"]
  /\ fin' = Append(fin, i)

RunTask(i) ==
  /\ FinishTask(i)
  /\ UNCHANGED <<script, table, df, max_workers, snap, yielded, cols, results,
                 manual_review, final_df, pc, run, prev, work, extracted>>

\* as_completed(futures) starts: the futures already finished are set aside
\* (they are yielded first, in the iteration order of a set).
AsCompleted ==
  /\ pc = "submit"
  /\ \A i \in 1..Len(df) : task[i] # "new"
  /\ snap' = {i \in 1..Len(df) : task[i] = "finished"}
  /\ pc' = "collect"
  /\ UNCHANGED <<script, table, df, max_workers, task, future, fin, yielded,
                 cols, results, manual_review, final_df, run, prev, work,
                 extracted>>

\* The futures as_completed may yield next: any of those finished before it
\* started; after them, the earliest finished of the others.
LaterFinished == SelectSeq(fin, LAMBDA i : i \notin snap /\ i \notin yielded)

NextYield ==
  IF snap \ yielded # {} THEN snap \ yielded
  ELSE IF LaterFinished # <<>> THEN {Head(LaterFinished)}
  ELSE {}

\* manual_review.append({...}) of doi_search.py 209-215 and auto.py 214-219.
\* Row_Number is i + 1 of the 0-based i, which is the 1-based i here.
ManualEntry(i, r) ==
  IF script = "auto"
    THEN [Row_Number |-> (i - 1) + 1, DOI |-> Str(r.doi),
          Title |-> GetCell(df[i].row.Title),
          Reason |-> "Not found in OpenAlex or Crossref"]
    ELSE [Row_Number |-> (i - 1) + 1, DOI |-> GetCell(df[i].row.DOI),
          Title |-> GetCell(df[i].row.Title), URL |-> r.url,
          Reason |-> "Not found in OpenAlex or Crossref"]

\* The slot of the output columns that the result of row i is written to.
SlotByCompletion(i) == Cardinality(yielded) + 1

Slot(i) == i

\* The body of the collection loop of doi_search.py 198-215, auto.py 202-219.
StoreDoi(i, r) ==
  /\ cols' = [cols EXCEPT
                !.resolved_titles[Slot(i)] = r.resolved_title,
                !.authors_col[Slot(i)] = r.authors,
                !.universities_col[Slot(i)] = r.universities,
                !.countries_col[Slot(i)] = r.countries,
                !.caribbean_col[Slot(i)] = r.caribbean,
                !.url_col[Slot(i)] = r.url,
                !.final_doi_col = IF script = "auto"
                                    THEN [@ EXCEPT ![Slot(i)] = r.doi] ELSE @]
  /\ manual_review' = IF r.caribbean = ManualVerdict
                        THEN Append(manual_review, ManualEntry(i, r))
                        ELSE manual_review
  /\ UNCHANGED results

\* results.append(future.result()) of title_search.py 124, url_search.py 170.
StoreAppend(i, r) ==
  /\ results' = Append(results, r)
  /\ UNCHANGED <<cols, manual_review>>

\* One round of `for future in as_completed(futures)`: future.result()
\* re-raises what process_row raised, which ends main.
Collect ==
  /\ pc = "collect"
  /\ \E i \in NextYield :
       /\ yielded' = yielded \cup {i}
       /\ IF future[i].ret.k = "raise"
            THEN /\ pc' = "aborted"
                 /\ UNCHANGED <<cols, results, manual_review>>
            ELSE /\ pc' = pc
                 /\ IF IsDoiScript(script)
                      THEN StoreDoi(i, future[i].ret)
                      ELSE StoreAppend(i, future[i].ret)
  /\ UNCHANGED <<script, table, df, max_workers, task, future, fin, snap,
                 final_df, run, prev, work, extracted>>

\* After the loop: the columns are attached to df (doi_search.py 217-222,
\* auto.py 221-226; final_doi_col is attached nowhere), or the results are
\* joined to df side by side, k-th to k-th (title_search.py 126-128,
\* url_search.py 172-174).
Write ==
  /\ pc = "collect"
  /\ yielded = 1..Len(df)
  /\ final_df' =
       IF IsDoiScript(script)
         THEN [i \in 1..Len(df) |->
                 [row |-> df[i].row,
                  result |-> [k |-> "ret",
                              resolved_title |-> cols.resolved_titles[i],
                              authors |-> cols.authors_col[i],
                              universities |-> cols.universities_col[i],
                              countries |-> cols.countries_col[i],
                              caribbean |-> cols.caribbean_col[i],
                              url |-> cols.url_col[i]]]]
         ELSE [i \in 1..Len(df) |-> [row |-> df[i].row, result |-> results[i]]]
  /\ pc' = "done"
  /\ UNCHANGED <<script, table, df, max_workers, task, future, fin, snap,
                 yielded, cols, results, manual_review, run, prev, work,
                 extracted>>

Next ==
  \/ ReadInput
  \/ Submit
  \/ \E i \in 1..Len(df) : RunTask(i)
  \/ AsCompleted
  \/ Collect
  \/ Write

Spec == Init /\ [][Next]_vars

----------------------------------------------------------------------------
(* process_row on one row, over a wide choice of cells and answers         *)

\* The longest DOI cell text.
MaxDoiLen == 3

\* "a", " ", ".", ",", ")", ";"
DoiAlphabet == {97, 32, 46, 44, 41, 59}

DoiTexts == UNION {[1..n -> DoiAlphabet] : n \in 0..MaxDoiLen}

DoiCells == {NaN, Absent} \cup {Str(s) : s \in DoiTexts}

TitleCells == {NaN, Str(<<>>), Str(s_T1)}

OAWorks == {OAWorkGuyana, OAWorkNoAuthorKey, OAWorkNullAuthorships}

\* A Crossref work whose author list is null.
CRWorkNullAuthor == CRWork(List(<<s_P>>), NoneList, Absent)

OpenAlexAnswers ==
  {HttpException, NotFound, Ok(InvalidBody), Ok(JFalsy), Ok(JNonObj)}
    \cup {Ok(JWork(w)) : w \in OAWorks}

CrossrefAnswers ==
  {HttpException, NotFound, Ok(JDoc(JNull)), Ok(JDoc(JWork(CRWorkHarvard))),
   Ok(JDoc(JWork(CRWorkNullAuthor)))}

SearchAnswers ==
  {HttpException, NotFound, Ok(JNonObj), Ok(JResults(<<>>)),
   Ok(JResults(<<JWork(OAWorkGuyana)>>)), Ok(JResults(<<JWork(OAWorkTwo)>>)),
   Ok(JResults(<<JWork(OAWorkNullAuthorships)>>))}

RowItems(s) ==
  IF IsDoiScript(s)
    THEN {[row |-> Row(d, t, Absent), net |-> Net(oa, cr, NoRequest, NoRequest)] :
            d \in DoiCells, t \in TitleCells,
            oa \in OpenAlexAnswers, cr \in CrossrefAnswers}
    ELSE {[row |-> Row(d, t, Absent), net |-> Net(NoRequest, NoRequest, se, NoRequest)] :
            d \in {NaN, Str(s_doi_a)}, t \in TitleCells, se \in SearchAnswers}

InitRow ==
  /\ script \in {"doi_search", "auto", "title_search"}
  /\ table = <<>>
  /\ df \in {<<it>> : it \in RowItems(script)}
  /\ max_workers = PoolSize(script)
  /\ task = <<"queued">>
  /\ future = <<NoFuture>>
  /\ fin = <<>>
  /\ snap = {}
  /\ yielded = {}
  /\ cols = NoCols
  /\ results = <<>>
  /\ manual_review = <<>>
  /\ final_df = <<>>
  /\ pc = "row"
  /\ run = 1
  /\ prev = <<>>
  /\ work = NoWork
  /\ extracted = NoWork

\* process_row(row) is called and returns or raises.
CallProcessRow ==
  /\ pc = "row"
  /\ FinishTask(1)
  /\ pc' = "returned"
  /\ UNCHANGED <<script, table, df, max_workers, snap, yielded, cols, results,
                 manual_review, final_df, run, prev, work, extracted>>

NextRow == CallProcessRow

SpecRow == InitRow /\ [][NextRow]_vars

----------------------------------------------------------------------------
(* extract_openalex and extract_crossref on one work                       *)

\* The most author entries a work is given after its padding.
MaxAuthors == 2

InstNames == {Absent, Str(s_UG), Str(s_uwi_lower), Str(s_Harvard), Str(s_Kingston)}

\* Institutions: named or not, with a country or none.
Insts ==
  {Inst(n, Absent) : n \in InstNames}
    \cup {Inst(Absent, Str(s_Jamaica)), Inst(Absent, Str(s_jamaica)),
          Inst(Str(s_Harvard), Str(s_Cuba))}

\* The institutions lists of an authorship: none, one institution, two.
InstLists ==
  {AbsentList, List(<<>>)}
    \cup {List(<<x>>) : x \in Insts}
    \cup {List(<<Inst(Str(s_Harvard), Str(s_US)), Inst(Str(s_Habana), None)>>)}

OAEntries ==
  {Authorship(AuthorObj(Str(s_Ann)), l) : l \in InstLists}
    \cup {Authorship(NoAuthor, List(<<>>)),
          Authorship(AuthorObj(None), List(<<>>)),
          Authorship(AuthorObj(Str(s_Bo)), NoneList)}

AffLists ==
  {AbsentList, List(<<>>), NoneList}
    \cup {List(<<Aff(n)>>) : n \in InstNames \cup {None}}
    \cup {List(<<Aff(Str(s_Harvard)), Aff(Str(s_Habana))>>)}

CREntries ==
  {CRAuthor(Str(s_Bo), Str(s_Li), l) : l \in AffLists}
    \cup {CRAuthor(Absent, Absent, List(<<Aff(Str(s_UG))>>)),
          CRAuthor(None, Str(s_Li), List(<<>>))}

\* An author entry with no affiliation, used to pad a work up to the cap.
OAFiller == Authorship(AuthorObj(Str(s_Li)), List(<<>>))
CRFiller == CRAuthor(Str(s_Li), Absent, List(<<>>))

\* n copies of x.
Copies(n, x) == [i \in 1..n |-> x]

\* How many filler entries come first: none, one short of the cap, the cap.
Paddings == {0, AuthorCap - 1, AuthorCap}

Tails(E) == UNION {[1..n -> E] : n \in 0..MaxAuthors}

OAInputs ==
  {OAWork(Str(s_P), Str(s_url_a), NoneList), OAWork(None, Absent, AbsentList)}
    \cup {OAWork(Str(s_P), Str(s_url_a), List(Copies(p, OAFiller) \o t)) :
            p \in Paddings, t \in Tails(OAEntries)}

CRInputs ==
  {CRWork(AbsentList, NoneList, Absent), CRWork(NoneList, AbsentList, None)}
    \cup {CRWork(List(<<s_P>>), List(Copies(p, CRFiller) \o t), Str(s_doi_a)) :
            p \in Paddings, t \in Tails(CREntries)}

ExtractInputs ==
  {[source |-> "openalex", work |-> w, doi |-> <<>>] : w \in OAInputs}
    \cup {[source |-> "crossref", work |-> w, doi |-> d] :
            w \in CRInputs, d \in {<<>>, s_doi_a}}

InitExtract ==
  /\ script \in {"doi_search", "auto"}
  /\ work \in ExtractInputs
  /\ extracted = NoWork
  /\ table = <<>>
  /\ df = <<>>
  /\ max_workers = PoolSize(script)
  /\ task = <<>>
  /\ future = <<>>
  /\ fin = <<>>
  /\ snap = {}
  /\ yielded = {}
  /\ cols = NoCols
  /\ results = <<>>
  /\ manual_review = <<>>
  /\ final_df = <<>>
  /\ pc = "extract"
  /\ run = 1
  /\ prev = <<>>

\* extract_openalex(work) or extract_crossref(work, doi) is called.  With
\* the tuple it returns, the lists its loops built are kept.
Extract ==
  /\ pc = "extract"
  /\ LET ls == IF work.source = "openalex"
                 THEN OALists(script, work.work) ELSE CRLists(script, work.work)
         r  == IF work.source = "openalex"
                 THEN extract_openalex(script, work.work)
                 ELSE extract_crossref(script, work.work, work.doi)
     IN  extracted' = [ret |-> r,
                       authors_list |-> ls.authors_list,
                       universities_list |-> ls.universities_list,
                       countries_list |-> ls.countries_list]
  /\ pc' = "extracted"
  /\ UNCHANGED <<script, table, df, max_workers, task, future, fin, snap,
                 yielded, cols, results, manual_review, final_df, run, prev,
                 work>>

NextExtract == Extract

SpecExtract == InitExtract /\ [][NextExtract]_vars

----------------------------------------------------------------------------
(* The fan-out run twice over the same input                               *)

\* Tables each of whose rows has one possible result (no set whose
\* iteration order shows in it), so that two runs over the table can differ
\* only in the pool size and in the interleaving of the workers.
InitRerun ==
  /\ Init
  /\ \A i \in 1..Len(table) :
       Cardinality(process_row(script, table[i].row, table[i].net)) = 1

\* The script is run again on the same table, with the same network
\* answers, and a pool of one worker.
Rerun ==
  /\ pc = "done"
  /\ run = 1
  /\ run' = 2
  /\ prev' = final_df
  /\ max_workers' = 1
  /\ pc' = "read"
  /\ UNCHANGED <<script, table, df, task, future, fin, snap, yielded, cols,
                 results, manual_review, final_df, work, extracted>>

NextRerun ==
  \/ Next
  \/ Rerun

SpecRerun == InitRerun /\ [][NextRerun]_vars

----------------------------------------------------------------------------
(* Claims                                                                  *)

\* t is s without its leading and trailing whitespace.
IsStripOf(s, t) ==
  \E i, j \in 0..Len(s) :
    /\ i <= j
    /\ t = SubSeq(s, i + 1, j)
    /\ \A x \in 1..i : IsSpace(s[x])
    /\ \A x \in (j + 1)..Len(s) : IsSpace(s[x])
    /\ t # <<>> => ~IsSpace(t[1]) /\ ~IsSpace(t[Len(t)])

IsBlank(s) == \A x \in 1..Len(s) : IsSpace(s[x])

\* d is t without its trailing characters among . , ) ;
IsWithoutTrailingPunct(t, d) ==
  \E j \in 0..Len(t) :
    /\ d = SubSeq(t, 1, j)
    /\ \A x \in (j + 1)..Len(t) : t[x] \in {46, 44, 41, 59}
    /\ d # <<>> => d[Len(d)] \notin {46, 44, 41, 59}

\* d is the normal form of the DOI text s: trimmed, then trailing
\* punctuation removed.
IsNormalDoiOf(s, d) ==
  \E i, j \in 0..Len(s) :
    /\ i <= j
    /\ IsStripOf(s, SubSeq(s, i + 1, j)) \/ (IsBlank(s) /\ i = j)
    /\ IsWithoutTrailingPunct(SubSeq(s, i + 1, j), d)

DoiColumns ==
  {"resolved_titles", "authors_col", "universities_col", "countries_col",
   "caribbean_col", "url_col"}

\* What the six (auto.py: seven) columns hold at slot i.
SlotOf(i) ==
  [resolved_title |-> cols.resolved_titles[i], authors |-> cols.authors_col[i],
   universities |-> cols.universities_col[i], countries |-> cols.countries_col[i],
   caribbean |-> cols.caribbean_col[i], url |-> cols.url_col[i],
   doi |-> IF script = "auto" THEN cols.final_doi_col[i] ELSE <<>>]

ReturnedOf(i) ==
  [resolved_title |-> future[i].ret.resolved_title, authors |-> future[i].ret.authors,
   universities |-> future[i].ret.universities, countries |-> future[i].ret.countries,
   caribbean |-> future[i].ret.caribbean, url |-> future[i].ret.url,
   doi |-> future[i].ret.doi]

\* C1: in doi_search.py and auto.py every output column has as many slots
\* as the table has rows, the result of row i is written to slot i whatever
\* the order in which the futures complete, and when the loop has ended
\* every slot holds what process_row returned for its row.
C1_SlotHoldsRowResult ==
  (IsDoiScript(script) /\ pc \in {"collect", "done", "aborted"}) =>
    /\ \A c \in DoiColumns : Len(cols[c]) = Len(df)
    /\ script = "auto" => Len(cols.final_doi_col) = Len(df)
    /\ \A i \in yielded : future[i].ret.k = "ret" => SlotOf(i) = ReturnedOf(i)
    /\ pc = "done" => yielded = 1..Len(df)

\* C1 witness: two rows with different results, the second finished and
\* collected first, and the loop has ended.
C1_Witness ==
  /\ IsDoiScript(script) /\ pc = "done" /\ Len(df) = 2
  /\ fin = <<2, 1>> /\ snap = {}
  /\ future[1].ret # future[2].ret

\* C2: in title_search.py and url_search.py the k-th result record joined
\* onto the table is the result of process_row for the k-th row.
C2_ResultsInRowOrder ==
  (~IsDoiScript(script) /\ pc = "done") =>
    /\ Len(final_df) = Len(df)
    /\ \A k \in 1..Len(df) : final_df[k].result = future[k].ret

\* C6: no row's failure aborts the batch: every call of process_row
\* returns a value, whatever the adapters answer, and main is never ended
\* by a row's exception.
C6_NoRowAbortsBatch ==
  /\ \A i \in 1..Len(df) : task[i] = "finished" => future[i].ret.k = "ret"
  /\ pc # "aborted"

ManualRows == {i \in 1..Len(df) : cols.caribbean_col[i] = ManualVerdict}

EntriesOf(i) == {k \in 1..Len(manual_review) : manual_review[k].Row_Number = i}

\* C8 as stated: after the batch, the manual-review list has exactly one
\* entry per row whose verdict is "Needs Manual Verification" and none for
\* another row; the entry of the row at 0-based position p (the p+1-th row)
\* carries Row_Number p+1, the row's DOI, its Title and the fixed reason.
C8_EntryCarriesRowDoi ==
  (IsDoiScript(script) /\ pc = "done") =>
    /\ \A i \in 1..Len(df) :
         Cardinality(EntriesOf(i)) = IF i \in ManualRows THEN 1 ELSE 0
    /\ \A k \in 1..Len(manual_review) :
         LET e == manual_review[k]
         IN  /\ e.Row_Number \in 1..Len(df)
             /\ e.DOI = GetCell(df[e.Row_Number].row.DOI)
             /\ e.Title = GetCell(df[e.Row_Number].row.Title)
             /\ e.Reason = "Not found in OpenAlex or Crossref"

\* What holds of both scripts: the same, except that in auto.py the DOI of
\* an entry is the DOI process_row returned (the text str() gives the cell,
\* trimmed and without trailing punctuation), not the row's cell.
C8_EntryPerManualRow ==
  (IsDoiScript(script) /\ pc = "done") =>
    /\ \A i \in 1..Len(df) :
         Cardinality(EntriesOf(i)) = IF i \in ManualRows THEN 1 ELSE 0
    /\ \A k \in 1..Len(manual_review) :
         LET e == manual_review[k]
         IN  /\ e.Row_Number \in 1..Len(df)
             /\ IF script = "auto"
                  THEN /\ e.DOI.k = "str"
                       /\ IsNormalDoiOf(PyStr(GetCell(df[e.Row_Number].row.DOI)), e.DOI.s)
                  ELSE e.DOI = GetCell(df[e.Row_Number].row.DOI)
             /\ e.Title = GetCell(df[e.Row_Number].row.Title)
             /\ e.Reason = "Not found in OpenAlex or Crossref"

\* A finished auto.py batch of two rows, the second collected
\* first, one of them for manual review with a DOI that is not the cell's
\* text, the other classified.
C8_Witness ==
  /\ script = "auto" /\ pc = "done" /\ Len(df) = 2 /\ fin = <<2, 1>>
  /\ Len(manual_review) = 1
  /\ manual_review[1].Row_Number = 2
  /\ manual_review[1].DOI # GetCell(df[2].row.DOI)

\* The one row process_row was called on, and what came of the call.
TheRow   == df[1].row
TheNet   == df[1].net
TheRet   == future[1].ret
TheCalls == future[1].calls

\* The DOI cell is missing, NaN or None, or blank after trimming.
DoiAbsentOrBlank(cell) ==
  cell.k \in {"absent", "nan", "null"} \/ (cell.k = "str" /\ IsBlank(cell.s))

\* The Title cell is missing, NaN or None, or blank.
TitleAbsent(cell) ==
  cell.k \in {"absent", "nan", "null"} \/ (cell.k = "str" /\ IsBlank(cell.s))

\* C3: for a row with no DOI (missing, NaN or blank after trimming) and no
\* title, process_row of auto.py and doi_search.py returns "Needs Manual
\* Verification" and calls no adapter.
C3_NoDoiNoTitleNoCall ==
  (IsDoiScript(script) /\ pc = "returned"
     /\ DoiAbsentOrBlank(TheRow.DOI) /\ TitleAbsent(TheRow.Title)) =>
    /\ TheRet.k = "ret"
    /\ TheRet.caribbean = "Needs Manual Verification"
    /\ TheCalls = <<>>

\* The OpenAlex request of the row was answered with data: status 200 and a
\* JSON value that is true.
OpenAlexReturnedData ==
  /\ TheNet.openalex.k = "response"
  /\ TheNet.openalex.status_code = 200
  /\ TheNet.openalex.body.k \in {"nonobj", "work"}

\* C4: the adapter calls of process_row (auto.py, doi_search.py) are a
\* prefix of [OpenAlex DOI lookup, Crossref DOI lookup]: Crossref is called
\* only after OpenAlex returned no data, never when it returned data, and
\* each adapter at most once.
C4_CallsArePrefix ==
  (IsDoiScript(script) /\ pc = "returned") =>
    /\ Len(TheCalls) <= 2
    /\ Len(TheCalls) >= 1 => TheCalls[1].adapter = "openalex_doi"
    /\ Len(TheCalls) = 2 =>
         TheCalls[2].adapter = "crossref_doi" /\ ~OpenAlexReturnedData
    /\ OpenAlexReturnedData =>
         \A k \in 1..Len(TheCalls) : TheCalls[k].adapter # "crossref_doi"

\* C4 witness: OpenAlex answered 404, Crossref was called next and its work
\* was classified.
C4_Witness ==
  /\ IsDoiScript(script) /\ pc = "returned"
  /\ Len(TheCalls) = 2
  /\ TheNet.openalex = NotFound
  /\ TheRet.k = "ret" /\ TheRet.caribbean = "No"

IsTitleLookup(call) == call.adapter \in {"openalex_title", "crossref_title"}

\* process_row reported the row for manual review.
ReturnedSentinel ==
  /\ TheRet.k = "ret"
  /\ IF IsDoiScript(script)
       THEN TheRet.caribbean = "Needs Manual Verification"
       ELSE TheRet.Manual_Review = "YES"

SearchReturnedData ==
  /\ TheNet.search.k = "response"
  /\ TheNet.search.status_code = 200
  /\ TheNet.search.body.k = "results"
  /\ TheNet.search.body.results # <<>>
  /\ TheNet.search.body.results[1].k \in {"nonobj", "work"}

DoiExampleRaw == <<49, 48, 46, 49, 50, 51, 52, 47, 65, 66, 67, 46, 44, 41, 59>>
DoiExample    == <<49, 48, 46, 49, 50, 51, 52, 47, 65, 66, 67>>

\* C7: the DOI every adapter call of a row receives is the DOI text of the
\* row, trimmed and then without its trailing . , ) ; characters, and both
\* lookups of a row receive the same DOI ("10.1234/ABC.,);" is looked up
\* as "10.1234/ABC").
C7_CallsGetNormalDoi ==
  (IsDoiScript(script) /\ pc = "returned" /\ TheRow.DOI.k = "str") =>
    /\ \A k \in 1..Len(TheCalls) : IsNormalDoiOf(TheRow.DOI.s, TheCalls[k].arg)
    /\ \A k, l \in 1..Len(TheCalls) : TheCalls[k].arg = TheCalls[l].arg
    /\ RStripDoi(Strip(DoiExampleRaw)) = DoiExample

\* C7 witness: a DOI with whitespace before and punctuation behind was
\* looked up on both adapters.
C7_Witness ==
  /\ IsDoiScript(script) /\ pc = "returned"
  /\ TheRow.DOI = Str(<<32, 97>> \o <<59>>)
  /\ Len(TheCalls) = 2
  /\ TheCalls[1].arg = <<97>>

\* The Crossref request of the row was answered with data: status 200 and a
\* JSON document whose "message" is true.
CrossrefReturnedData ==
  /\ TheNet.crossref.k = "response"
  /\ TheNet.crossref.status_code = 200
  /\ TheNet.crossref.body.k = "doc"
  /\ TheNet.crossref.body.message.k \in {"nonobj", "work"}

AdapterCalled(adapter) ==
  \E k \in 1..Len(TheCalls) : TheCalls[k].adapter = adapter

\* One of the lookups made for the row returned data.
SomeAdapterReturnedData ==
  \/ AdapterCalled("openalex_doi") /\ OpenAlexReturnedData
  \/ AdapterCalled("crossref_doi") /\ CrossrefReturnedData

IsPunctuationOnly(s) ==
  /\ ~IsBlank(s)
  /\ \A k \in 1..Len(s) : IsSpace(s[k]) \/ s[k] \in {46, 44, 41, 59}
  /\ \A k \in 1..Len(s) :
       IsSpace(s[k]) => (\A l \in 1..k : IsSpace(s[l])) \/ (\A l \in k..Len(s) : IsSpace(s[l]))

\* C13: process_row (auto.py, doi_search.py) never calls an adapter with an
\* empty DOI string; a DOI cell that is empty once its trailing punctuation
\* is removed, such as "." or ");", is treated as absent: the sentinel is
\* returned and no adapter is called.
C13_NoEmptyDoiCall ==
  (IsDoiScript(script) /\ pc = "returned") =>
    /\ \A k \in 1..Len(TheCalls) : TheCalls[k].arg # <<>>
    /\ (TheRow.DOI.k = "str" /\ IsPunctuationOnly(TheRow.DOI.s)) =>
         /\ TheCalls = <<>>
         /\ TheRet.k = "ret"
         /\ TheRet.caribbean = "Needs Manual Verification"

\* C9: with the adapter answers fixed per row, a run with the script's pool
\* size and a run with a pool of one worker over the same input write the
\* same results in the same positions, whatever the interleaving.
C9_RunsAgree ==
  (run = 2 /\ pc = "done") => final_df = prev

\* Some country of the list is a member of the country allow-list, or some
\* institution of the list contains, letter case aside, a member of the
\* university allow-list.
IsCaribbean(s, institutions, countries) ==
  \/ \E k \in 1..Len(countries) : countries[k] \in Countries(s)
  \/ \E k \in 1..Len(institutions) : \E u \in Universities(s) :
       \E p \in 0..(Len(institutions[k]) - Len(u)) :
         \A x \in 1..Len(u) :
           LowerChar(institutions[k][p + x]) = LowerChar(u[x])

TheAuthors ==
  IF work.source = "openalex"
    THEN GetList(work.work.authorships) ELSE GetList(work.work.author)

\* The work with its author entries replaced.
WithAuthors(w, entries) ==
  IF w.source = "openalex"
    THEN [w EXCEPT !.work.authorships = List(entries)]
    ELSE [w EXCEPT !.work.author = List(entries)]

\* What the extractor of the work's source returns for it.
Extracted(s, w) ==
  IF w.source = "openalex"
    THEN extract_openalex(s, w.work)
    ELSE extract_crossref(s, w.work, w.doi)

\* An author entry of the University of Guyana, in the form of the source.
CaribbeanEntry(source) ==
  IF source = "openalex"
    THEN Authorship(AuthorObj(Str(s_Ann)), List(<<Inst(Str(s_UG), Str(s_Jamaica))>>))
    ELSE CRAuthor(Str(s_Ann), Absent, List(<<Aff(Str(s_UG))>>))

\* C12: what extract_openalex and extract_crossref return (title, authors,
\* institutions, countries, verdict, URL, or the exception) depends only on
\* the first 10 author entries of the work: the work cut after its 10th
\* entry gives the same, and so does the work with one more entry, of an
\* allow-listed Caribbean institution, behind the 10th or later entries.
\* Two works that differ in entries 11 and later therefore agree.
C12_OnlyFirstTenAuthors ==
  (pc = "extracted" /\ Len(TheAuthors) >= 10) =>
    /\ extracted.ret =
         Extracted(script, WithAuthors(work, SubSeq(TheAuthors, 1, 10)))
    /\ extracted.ret =
         Extracted(script,
                   WithAuthors(work, TheAuthors \o <<CaribbeanEntry(work.source)>>))

\* C12 witness: a work of 11 authors whose 11th is of the University of
\* Guyana and whose first ten have no affiliation: the verdict is "No" and
\* no institution is reported.
C12_Witness ==
  /\ pc = "extracted"
  /\ Len(TheAuthors) = 11
  /\ TheAuthors[11] \in
       {Authorship(AuthorObj(Str(s_Ann)), List(<<Inst(Str(s_UG), Absent)>>)),
        CRAuthor(Absent, Absent, List(<<Aff(Str(s_UG))>>))}
  /\ extracted.ret.k = "ret"
  /\ extracted.ret.caribbean = "No"
  /\ extracted.ret.universities = <<>>

====
